---------------------------- MODULE Spec2Model ----------------------------
(***************************************************************************)
(* Model of clewcrew_common/confidence.py: the ConfidenceScore value       *)
(* object and the ConfidenceCalculator scoring operations.                 *)
(*                                                                         *)
(* Every operation of the calculator is a pure static method.  A behaviour *)
(* of the model is one call: Init draws the operation and its arguments    *)
(* from bounded sets, and the operation's action applies it and records    *)
(* what the call produced (a returned value or a raised exception).        *)
(*                                                                         *)
(* Two further specifications use variables of their own: SpecLifecycle,   *)
(* what callers can do with a constructed ConfidenceScore, and SpecRetry,  *)
(* AsyncExecutor.execute_with_retry of async_utils.py step by step.  Each  *)
(* specification leaves the variables of the others at their idle values.  *)
(*                                                                         *)
(* Python floats are modelled as exact rationals [num, den] in lowest      *)
(* terms with den > 0, so equal numbers are equal records.  Rounding of    *)
(* IEEE doubles is therefore not modelled.                                 *)
(***************************************************************************)
EXTENDS Integers, Sequences, FiniteSets

VARIABLES pc, op, args, result,
          \* a live ConfidenceScore: its fields now and as constructed
          instance, constructed,
          \* execute_with_retry: self, the argument, the locals, the trace
          default_retries, max_retries_arg, retry_pc, max_retries, attempt,
          invocations, sleeps, outcome

callVars == <<pc, op, args, result>>

lifecycleVars == <<instance, constructed>>

retryVars ==
    <<default_retries, max_retries_arg, retry_pc, max_retries, attempt,
      invocations, sleeps, outcome>>

vars == <<callVars, lifecycleVars, retryVars>>

----------------------------------------------------------------------------
(* float arithmetic, as exact rationals *)

Abs(x) == IF x < 0 THEN -x ELSE x

RECURSIVE GCD(_, _)
GCD(a, b) == IF b = 0 THEN a ELSE GCD(b, a % b)

Rat(n, d) ==
    LET s == IF d < 0 THEN -1 ELSE 1
        g == GCD(Abs(n), Abs(d))
    IN  [num |-> (s * n) \div g, den |-> (s * d) \div g]

RInt(n) == Rat(n, 1)

RAdd(a, b) == Rat(a.num * b.den + b.num * a.den, a.den * b.den)

RSub(a, b) == Rat(a.num * b.den - b.num * a.den, a.den * b.den)

RMul(a, b) == Rat(a.num * b.num, a.den * b.den)

RDiv(a, b) == Rat(a.num * b.den, a.den * b.num)

RLt(a, b) == a.num * b.den < b.num * a.den

RLe(a, b) == a.num * b.den <= b.num * a.den

\* Python's min(a, b) and max(a, b) on two floats.
RMin(a, b) == IF RLt(b, a) THEN b ELSE a

RMax(a, b) == IF RLt(a, b) THEN b ELSE a

Zero == RInt(0)

One == RInt(1)

----------------------------------------------------------------------------
(* optional values: None is <<>>, a present value x is <<x>> *)

None == <<>>

Some(x) == <<x>>

\* A parameter's default (weights = None, base_confidence = 0.9, ...) or
\* dict.get(key, default).
OrDefault(o, default) == IF o = None THEN default ELSE o[1]

----------------------------------------------------------------------------
(* what a call produced *)

\* No live instance is tracked.
LifecycleIdle == instance = None /\ constructed = None

\* No execute_with_retry call is running.
RetryIdle ==
    /\ default_retries = 0
    /\ max_retries_arg = None
    /\ retry_pc = "idle"
    /\ max_retries = 0
    /\ attempt = 0
    /\ invocations = <<>>
    /\ sleeps = <<>>
    /\ outcome = None

NoResult == [raised |-> "", score |-> None, number |-> None]

Return(s) == [raised |-> "", score |-> Some(s), number |-> None]

ReturnNumber(x) == [raised |-> "", score |-> None, number |-> Some(x)]

Raise(e) == [raised |-> e, score |-> None, number |-> None]

----------------------------------------------------------------------------
(* class ConfidenceScore *)

\* The declared constraints of the field: Field(..., ge=0.0, le=1.0).
FieldConstraints(v) == RLe(Zero, v) /\ RLe(v, One)

\* @field_validator("value"): max(0.0, min(1.0, v)).
validate_confidence(v) == RMax(Zero, RMin(One, v))

\* ConfidenceScore(value=v, factors=f, metadata=m).  field_validator's
\* default mode is "after": pydantic first validates the field against its
\* declared type and constraints (ge, le) and raises ValidationError when
\* they fail; validate_confidence only runs on a value that passed them.
ConfidenceScore(v, f, m) ==
    IF FieldConstraints(v)
    THEN Return([value |-> validate_confidence(v), factors |-> f, metadata |-> m])
    ELSE Raise("ValidationError")

----------------------------------------------------------------------------
(* class ConfidenceCalculator *)

recovery_default_base == Rat(1, 2)

\* confidence_increase = min(0.4, len(changes_made) * 0.1)
recovery_increase_uncapped(changes_made) ==
    RMul(RInt(Len(changes_made)), Rat(1, 10))

recovery_increase_off_by_one(changes_made) ==
    RMin(Rat(4, 10), RMul(RInt(Len(changes_made) - 1), Rat(1, 10)))

recovery_increase(changes_made) ==
    RMin(Rat(4, 10), RMul(RInt(Len(changes_made)), Rat(1, 10)))

calculate_recovery_confidence(changes_made, base_confidence) ==
    IF changes_made = <<>>
    THEN ConfidenceScore(base_confidence, <<"no_changes_made">>,
            [method |-> "recovery_confidence",
             base_confidence |-> base_confidence])
    ELSE LET confidence_increase == recovery_increase(changes_made)
             final_confidence ==
                 RMin(Rat(9, 10), RAdd(base_confidence, confidence_increase))
         IN  ConfidenceScore(final_confidence,
                <<"changes_successful", "multiple_changes">>,
                [method |-> "recovery_confidence",
                 changes_count |-> Len(changes_made),
                 confidence_increase |-> confidence_increase])

validation_default_base == Rat(9, 10)

\* confidence_decrease = min(0.8, len(issues) * 0.1)
validation_decrease_uncapped(issues) ==
    RMul(RInt(Len(issues)), Rat(1, 10))

validation_decrease_off_by_one(issues) ==
    RMin(Rat(8, 10), RMul(RInt(Len(issues) - 1), Rat(1, 10)))

validation_decrease(issues) ==
    RMin(Rat(8, 10), RMul(RInt(Len(issues)), Rat(1, 10)))

calculate_validation_confidence(issues, base_confidence) ==
    IF issues = <<>>
    THEN ConfidenceScore(base_confidence, <<"no_issues_found">>,
            [method |-> "validation_confidence",
             base_confidence |-> base_confidence])
    ELSE LET confidence_decrease == validation_decrease(issues)
             final_confidence ==
                 RMax(Rat(1, 10), RSub(base_confidence, confidence_decrease))
         IN  ConfidenceScore(final_confidence,
                <<"issues_found", "multiple_issues">>,
                [method |-> "validation_confidence",
                 issues_count |-> Len(issues),
                 confidence_decrease |-> confidence_decrease])

normalize_confidence(confidence) == RMax(Zero, RMin(One, confidence))

agent_default_base == Rat(9, 10)

\* "Adjust confidence based on severity": the adjusted confidence and the
\* factor one round of the loop appends.
adjust_for_severity_high_unscaled(confidence, severity) ==
    IF severity = "high"
    THEN [confidence |-> confidence, factor |-> "high_severity_penalty"]
    ELSE IF severity = "low"
    THEN [confidence |-> RMul(confidence, Rat(8, 10)),
          factor |-> "low_severity_penalty"]
    ELSE [confidence |-> confidence, factor |-> "medium_severity"]

adjust_for_severity(confidence, severity) ==
    IF severity = "high"
    THEN [confidence |-> RMul(confidence, Rat(12, 10)),
          factor |-> "high_severity_penalty"]
    ELSE IF severity = "low"
    THEN [confidence |-> RMul(confidence, Rat(8, 10)),
          factor |-> "low_severity_penalty"]
    ELSE [confidence |-> confidence, factor |-> "medium_severity"]

\* The state of the for loop over the delusions after its first k rounds.
RECURSIVE agent_loop(_, _)
agent_loop(delusions, k) ==
    IF k = 0
    THEN [total_confidence |-> Zero, factors |-> <<>>]
    ELSE LET prev == agent_loop(delusions, k - 1)
             delusion == delusions[k]
             confidence == OrDefault(delusion.confidence, Rat(1, 2))
             severity == OrDefault(delusion.severity, "medium")
             adjusted == adjust_for_severity(confidence, severity)
         IN  [total_confidence |->
                  RAdd(prev.total_confidence, adjusted.confidence),
              factors |-> Append(prev.factors, adjusted.factor)]

calculate_agent_confidence(delusions, base_confidence) ==
    IF delusions = <<>>
    THEN ConfidenceScore(base_confidence, <<"no_delusions_found">>,
            [method |-> "agent_confidence",
             base_confidence |-> base_confidence])
    ELSE LET end == agent_loop(delusions, Len(delusions))
             average == RDiv(end.total_confidence, RInt(Len(delusions)))
             final_confidence == RMin(average, One)
         IN  ConfidenceScore(final_confidence, end.factors,
                [method |-> "agent_confidence",
                 delusion_count |-> Len(delusions),
                 average_delusion_confidence |-> average])

\* Python's sum() of a list of floats.
RECURSIVE RSum(_)
RSum(xs) == IF xs = <<>> THEN Zero ELSE RAdd(xs[1], RSum(Tail(xs)))

calculate_workflow_confidence(steps_completed, total_steps, step_confidence_scores) ==
    IF total_steps = 0
    THEN ConfidenceScore(Zero, <<"no_steps_defined">>,
            [method |-> "workflow_confidence"])
    ELSE LET completion_ratio == Rat(steps_completed, total_steps)
             avg_step_confidence ==
                 IF step_confidence_scores # <<>>
                 THEN RDiv(RSum(step_confidence_scores),
                           RInt(Len(step_confidence_scores)))
                 ELSE Rat(1, 2)
             final_confidence ==
                 RAdd(RMul(completion_ratio, Rat(6, 10)),
                      RMul(avg_step_confidence, Rat(4, 10)))
             completion_factor ==
                 IF completion_ratio = One THEN "workflow_completed"
                 ELSE IF RLt(Rat(1, 2), completion_ratio)
                      THEN "workflow_partially_completed"
                      ELSE "workflow_early_stage"
             confidence_factors ==
                 IF RLt(Rat(8, 10), avg_step_confidence)
                 THEN <<"high_step_confidence">>
                 ELSE IF RLt(avg_step_confidence, Rat(3, 10))
                      THEN <<"low_step_confidence">>
                      ELSE <<>>
         IN  ConfidenceScore(final_confidence,
                <<completion_factor>> \o confidence_factors,
                [method |-> "workflow_confidence",
                 completion_ratio |-> completion_ratio,
                 average_step_confidence |-> avg_step_confidence,
                 steps_completed |-> steps_completed,
                 total_steps |-> total_steps])

\* all_factors after the loop "for score in scores: all_factors.extend(...)".
RECURSIVE extend_factors_deduplicated(_)
extend_factors_deduplicated(scores) ==
    IF scores = <<>> THEN <<>>
    ELSE LET rest == extend_factors_deduplicated(Tail(scores))
         IN  SelectSeq(scores[1].factors,
                       LAMBDA x : ~\E i \in 1..Len(rest) : rest[i] = x) \o rest

RECURSIVE extend_factors(_)
extend_factors(scores) ==
    IF scores = <<>> THEN <<>>
    ELSE scores[1].factors \o extend_factors(Tail(scores))

WeightsMismatch == "ValueError: Number of weights must match number of scores"

\* The guard of the raise: len(weights) != len(scores).
weights_mismatch_too_few_only(weights, scores) == Len(weights) < Len(scores)

weights_mismatch(weights, scores) == Len(weights) # Len(scores)

\* "Normalize weights to sum to 1.0", skipped when they sum to zero.
normalize_weights_skipped(weights) == weights

normalize_weights(weights) ==
    LET weight_sum == RSum(weights)
    IN  IF weight_sum # Zero
        THEN [i \in 1..Len(weights) |-> RDiv(weights[i], weight_sum)]
        ELSE weights

combine_confidence_scores(scores, weights) ==
    IF scores = <<>>
    THEN ConfidenceScore(Zero, <<"no_scores_provided">>,
            [method |-> "combined_confidence"])
    ELSE LET n == Len(scores)
             given == OrDefault(weights, [i \in 1..n |-> RDiv(One, RInt(n))])
         IN  IF weights_mismatch(given, scores)
             THEN Raise(WeightsMismatch)
             ELSE LET normalized == normalize_weights(given)
                      combined_value ==
                          RSum([i \in 1..n |->
                                   RMul(scores[i].value, normalized[i])])
                  IN  ConfidenceScore(combined_value, extend_factors(scores),
                         [method |-> "combined_confidence",
                          score_count |-> n,
                          weights |-> normalized,
                          individual_scores |->
                              [i \in 1..n |-> scores[i].value]])

----------------------------------------------------------------------------
(* the arguments of the modelled calls *)

MaxFindings == 2
MaxChanges == 5
MaxIssues == 9
MaxSteps == 5
MaxStepScores == 3
MaxScores == 2

SeqsUpTo(S, n) == UNION {[1..k -> S] : k \in 0..n}

\* Raw numbers handed to the constructor and to normalize_confidence.
RawValues == {Rat(-1, 2), Rat(-1, 10), Zero, Rat(1, 2), One, Rat(11, 10), Rat(3, 2)}

\* base_confidence arguments: omitted, or a confidence in [0, 1].
BaseValues == {None} \cup {Some(Rat(k, 10)) : k \in {0, 1, 5, 6, 9, 10}}

\* A finding: a dict whose "confidence" and "severity" keys may be missing.
Findings ==
    [confidence : {None, Some(Zero), Some(Rat(6, 10)), Some(One)},
     severity : {None, Some("high"), Some("medium"), Some("low"), Some("critical")}]

StepConfidences == {Zero, Rat(3, 10), Rat(7, 10), Rat(8, 10), Rat(9, 10)}

FactorLists == {<<>>, <<"factor1">>, <<"factor2", "factor1">>}

\* ConfidenceScore instances that exist: value in [0, 1].
InputScores ==
    [value : {Zero, Rat(6, 10), Rat(8, 10)},
     factors : {<<"factor1">>, <<"factor2", "factor1">>},
     metadata : {[method |-> "test"]}]

Weights == {RInt(-1), Zero, Rat(3, 10), Rat(7, 10)}

\* weights argument: omitted, or a list of any length up to one more than
\* the longest score list.
WeightArgs == {None} \cup {Some(w) : w \in SeqsUpTo(Weights, MaxScores + 1)}

NoArgs ==
    [value |-> Zero, factors |-> <<>>, delusions |-> <<>>, changes_made |-> <<>>,
     issues |-> <<>>, base_confidence |-> None, steps_completed |-> 0,
     total_steps |-> 0, step_confidence_scores |-> <<>>, scores |-> <<>>,
     weights |-> None]

Init ==
    /\ LifecycleIdle
    /\ RetryIdle
    /\ pc = "call"
    /\ result = NoResult
    /\ \/ /\ op = "ConfidenceScore"
          /\ \E v \in RawValues, f \in FactorLists :
                args = [NoArgs EXCEPT !.value = v, !.factors = f]
       \/ /\ op = "normalize_confidence"
          /\ \E v \in RawValues : args = [NoArgs EXCEPT !.value = v]
       \/ /\ op = "calculate_agent_confidence"
          /\ \E d \in SeqsUpTo(Findings, MaxFindings), b \in BaseValues :
                args = [NoArgs EXCEPT !.delusions = d, !.base_confidence = b]
       \/ /\ op = "calculate_recovery_confidence"
          /\ \E c \in SeqsUpTo({"fix"}, MaxChanges), b \in BaseValues :
                args = [NoArgs EXCEPT !.changes_made = c, !.base_confidence = b]
       \/ /\ op = "calculate_validation_confidence"
          /\ \E i \in SeqsUpTo({"issue"}, MaxIssues), b \in BaseValues :
                args = [NoArgs EXCEPT !.issues = i, !.base_confidence = b]
       \/ /\ op = "calculate_workflow_confidence"
          /\ \E sc \in 0..MaxSteps, ts \in 0..MaxSteps,
                s \in SeqsUpTo(StepConfidences, MaxStepScores) :
                args = [NoArgs EXCEPT !.steps_completed = sc, !.total_steps = ts,
                                      !.step_confidence_scores = s]
       \/ /\ op = "combine_confidence_scores"
          /\ \E s \in SeqsUpTo(InputScores, MaxScores), w \in WeightArgs :
                args = [NoArgs EXCEPT !.scores = s, !.weights = w]

----------------------------------------------------------------------------
(* one action per operation: the call runs to its return or its raise *)

Finish(r) ==
    /\ result' = r
    /\ pc' = "done"
    /\ UNCHANGED <<op, args, lifecycleVars, retryVars>>

Construct ==
    /\ pc = "call" /\ op = "ConfidenceScore"
    /\ Finish(ConfidenceScore(args.value, args.factors, <<>>))

NormalizeConfidence ==
    /\ pc = "call" /\ op = "normalize_confidence"
    /\ Finish(ReturnNumber(normalize_confidence(args.value)))

CalculateAgentConfidence ==
    /\ pc = "call" /\ op = "calculate_agent_confidence"
    /\ Finish(calculate_agent_confidence(args.delusions,
                 OrDefault(args.base_confidence, agent_default_base)))

CalculateRecoveryConfidence ==
    /\ pc = "call" /\ op = "calculate_recovery_confidence"
    /\ Finish(calculate_recovery_confidence(args.changes_made,
                 OrDefault(args.base_confidence, recovery_default_base)))

CalculateValidationConfidence ==
    /\ pc = "call" /\ op = "calculate_validation_confidence"
    /\ Finish(calculate_validation_confidence(args.issues,
                 OrDefault(args.base_confidence, validation_default_base)))

CalculateWorkflowConfidence ==
    /\ pc = "call" /\ op = "calculate_workflow_confidence"
    /\ Finish(calculate_workflow_confidence(args.steps_completed,
                 args.total_steps, args.step_confidence_scores))

CombineConfidenceScores ==
    /\ pc = "call" /\ op = "combine_confidence_scores"
    /\ Finish(combine_confidence_scores(args.scores, args.weights))

Next ==
    \/ Construct
    \/ NormalizeConfidence
    \/ CalculateAgentConfidence
    \/ CalculateRecoveryConfidence
    \/ CalculateValidationConfidence
    \/ CalculateWorkflowConfidence
    \/ CombineConfidenceScores

Spec == Init /\ [][Next]_vars

----------------------------------------------------------------------------
(* the life of a ConfidenceScore instance after its construction *)

Metadatas == {[method |-> "test"], [test |-> "data"]}

\* Numbers a caller assigns to score.value.
AssignedValues == {Rat(-1, 2), Rat(1, 2), Rat(3, 2)}

\* The second score of the list the instance is combined in.
OtherScore ==
    [value |-> Rat(6, 10), factors |-> <<"factor1">>,
     metadata |-> [method |-> "test"]]

\* A caller has constructed an instance: ConfidenceScore(value=v, factors=f,
\* metadata=m) returned it.
LifecycleInit ==
    /\ RetryIdle
    /\ pc = "live"
    /\ op = "ConfidenceScore"
    /\ \E v \in RawValues, f \in FactorLists, m \in Metadatas :
          /\ args = [NoArgs EXCEPT !.value = v, !.factors = f]
          /\ result = ConfidenceScore(v, f, m)
          /\ result.raised = ""
          /\ instance = result.score
          /\ constructed = result.score

\* score.value: reading a field returns it and changes nothing.
ReadValue ==
    /\ pc = "live"
    /\ result' = ReturnNumber(instance[1].value)
    /\ UNCHANGED <<pc, op, args, lifecycleVars, retryVars>>

\* combine_confidence_scores([score, other], weights) reads score.value and
\* score.factors and builds new lists; the instance is not written.
PassToCombine ==
    /\ pc = "live"
    /\ \E w \in {None, Some(<<Rat(7, 10), Rat(3, 10)>>)} :
          result' = combine_confidence_scores(<<instance[1], OtherScore>>, w)
    /\ UNCHANGED <<pc, op, args, lifecycleVars, retryVars>>

\* score.value = x.  The class sets no model_config: the model is not
\* frozen and validate_assignment is off, so BaseModel.__setattr__ stores x
\* without running the field's constraints or validate_confidence.
AssignValue ==
    /\ pc = "live"
    /\ \E x \in AssignedValues :
          instance' = Some([instance[1] EXCEPT !.value = x])
    /\ UNCHANGED <<callVars, constructed, retryVars>>

\* score.factors = f
AssignFactors ==
    /\ pc = "live"
    /\ \E f \in FactorLists : instance' = Some([instance[1] EXCEPT !.factors = f])
    /\ UNCHANGED <<callVars, constructed, retryVars>>

\* score.metadata = m
AssignMetadata ==
    /\ pc = "live"
    /\ \E m \in Metadatas : instance' = Some([instance[1] EXCEPT !.metadata = m])
    /\ UNCHANGED <<callVars, constructed, retryVars>>

LifecycleNext ==
    \/ ReadValue
    \/ PassToCombine
    \/ AssignValue
    \/ AssignFactors
    \/ AssignMetadata

SpecLifecycle == LifecycleInit /\ [][LifecycleNext]_vars

----------------------------------------------------------------------------
(* AsyncExecutor.execute_with_retry *)

MaxRetries == 3

\* Python's "x or y" on an Optional[int] x: y when x is None or 0.
PyOr(x, y) == IF x = None \/ x[1] = 0 THEN y ELSE x[1]

\* 1 * (2**attempt)
RECURSIVE backoff(_)
backoff(k) == IF k = 0 THEN 1 ELSE 2 * backoff(k - 1)

\* executor.execute_with_retry(operation, max_retries) is called on an
\* executor built with some default_retries; max_retries may be omitted.
RetryInit ==
    /\ LifecycleIdle
    /\ pc = "retry" /\ op = "execute_with_retry" /\ args = NoArgs
    /\ result = NoResult
    /\ default_retries \in 0..MaxRetries
    /\ max_retries_arg \in {None} \cup {Some(n) : n \in 0..MaxRetries}
    /\ retry_pc = "entry"
    /\ max_retries = 0
    /\ attempt = 0
    /\ invocations = <<>>
    /\ sleeps = <<>>
    /\ outcome = None

\* max_retries = max_retries or self.default_retries; the loop starts.
Enter ==
    /\ retry_pc = "entry"
    /\ max_retries' = PyOr(max_retries_arg, default_retries)
    /\ attempt' = 0
    /\ retry_pc' = "attempt"
    /\ UNCHANGED <<callVars, lifecycleVars, default_retries, max_retries_arg,
                   invocations, sleeps, outcome>>

\* The awaited operation returns within the timeout: its result is returned.
AttemptReturns ==
    /\ retry_pc = "attempt"
    /\ invocations' = Append(invocations, "returned")
    /\ outcome' = Some([kind |-> "returned", attempt |-> attempt])
    /\ retry_pc' = "returned"
    /\ UNCHANGED <<callVars, lifecycleVars, default_retries, max_retries_arg,
                   max_retries, attempt, sleeps>>

\* The awaited operation fails with error e (asyncio.TimeoutError from
\* wait_for, or an Exception of the operation): re-raised on the last
\* attempt, otherwise the backoff sleep comes next.
AttemptFails(e) ==
    /\ retry_pc = "attempt"
    /\ invocations' = Append(invocations, e)
    /\ IF attempt = max_retries
       THEN /\ outcome' = Some([kind |-> e, attempt |-> attempt])
            /\ retry_pc' = "raised"
       ELSE /\ outcome' = outcome
            /\ retry_pc' = "sleep"
    /\ UNCHANGED <<callVars, lifecycleVars, default_retries, max_retries_arg,
                   max_retries, attempt, sleeps>>

AttemptTimesOut == AttemptFails("TimeoutError")

AttemptRaises == AttemptFails("Exception")

\* await asyncio.sleep(1 * (2**attempt)), then the next round of the loop.
Sleep ==
    /\ retry_pc = "sleep"
    /\ sleeps' = Append(sleeps, backoff(attempt))
    /\ attempt' = attempt + 1
    /\ retry_pc' = "attempt"
    /\ UNCHANGED <<callVars, lifecycleVars, default_retries, max_retries_arg,
                   max_retries, invocations, outcome>>

RetryNext ==
    \/ Enter
    \/ AttemptReturns
    \/ AttemptTimesOut
    \/ AttemptRaises
    \/ Sleep

SpecRetry == RetryInit /\ [][RetryNext]_vars

----------------------------------------------------------------------------
(* properties *)

Done(o) == pc = "done" /\ op = o

Returned == result.raised = "" /\ result.score # None

ScoringOps ==
    {"calculate_agent_confidence", "calculate_recovery_confidence",
     "calculate_validation_confidence", "calculate_workflow_confidence",
     "combine_confidence_scores"}

InUnitInterval(x) == RLe(Zero, x) /\ RLe(x, One)

\* The clamp of x into [0.0, 1.0], case by case.
Clamp01(x) == IF RLt(x, Zero) THEN Zero ELSE IF RLt(One, x) THEN One ELSE x

\* An explicit weights argument whose length differs from the score count.
ExplicitMismatch ==
    /\ op = "combine_confidence_scores"
    /\ args.weights # None
    /\ Len(args.weights[1]) # Len(args.scores)

\* The weights argument is in its declared domain: omitted, or non-negative
\* weights, one per score.
DeclaredWeights ==
    \/ args.weights = None
    \/ /\ Len(args.weights[1]) = Len(args.scores)
       /\ \A i \in 1..Len(args.weights[1]) : RLe(Zero, args.weights[1][i])

(* C1: constructing a ConfidenceScore from any real number x never fails   *)
(* and yields an instance whose value is the clamp of x into [0.0, 1.0],   *)
(* the same number normalize_confidence(x) returns.                        *)
C1_ConstructionClamps ==
    Done("ConfidenceScore") =>
        /\ Returned
        /\ result.score[1].value = Clamp01(args.value)
        /\ result.score[1].value = normalize_confidence(args.value)

(* C2: every call of one of the five scoring operations with arguments in  *)
(* their declared domains returns a ConfidenceScore whose value lies in    *)
(* [0.0, 1.0], also when the arithmetic overshoots.                        *)
C2_ScoringValueInUnitInterval ==
    (pc = "done" /\ op \in ScoringOps /\ DeclaredWeights) =>
        /\ Returned
        /\ InUnitInterval(result.score[1].value)

(* C3, as stated: for every sequence of scores, an explicit weight list of *)
(* a different length makes combine_confidence_scores fail with 'Number of *)
(* weights must match number of scores' and produce no ConfidenceScore.    *)
C3_MismatchAlwaysRaises ==
    (Done("combine_confidence_scores") /\ ExplicitMismatch) =>
        /\ result.raised = WeightsMismatch
        /\ result.score = None

(* C3, amended: for every NON-EMPTY sequence of scores, an explicit weight *)
(* list of a different length makes combine_confidence_scores fail with    *)
(* 'Number of weights must match number of scores' and produce no          *)
(* ConfidenceScore; for an empty sequence of scores the weights are not    *)
(* looked at and the no_scores_provided score is returned.                 *)
C3_MismatchRaisesForNonEmptyScores ==
    (Done("combine_confidence_scores") /\ ExplicitMismatch) =>
        IF args.scores # <<>>
        THEN result.raised = WeightsMismatch /\ result.score = None
        ELSE Returned /\ result.score[1].factors = <<"no_scores_provided">>

C3_Witness ==
    /\ Done("combine_confidence_scores")
    /\ Len(args.scores) = 2
    /\ args.weights # None
    /\ Len(args.weights[1]) = 3
    /\ result.raised = WeightsMismatch

(* C4: the weight-count mismatch is the only error: a scoring operation    *)
(* called with any other input, however degenerate, completes without      *)
(* error and returns a ConfidenceScore.                                    *)
C4_MismatchIsTheOnlyError ==
    (pc = "done" /\ op \in ScoringOps) =>
        /\ result.raised \in {"", WeightsMismatch}
        /\ ~ExplicitMismatch => Returned

(* C5: for non-empty scores s_1..s_n and matching weights w_1..w_n of raw  *)
(* sum W (every weight 1/n when weights are omitted): the weights recorded *)
(* in metadata are w_i / W when W # 0, and sum to 1, and are the weights   *)
(* unchanged when W = 0; the combined value is the sum of s_i.value times  *)
(* the recorded weight, the arithmetic mean when weights are omitted;      *)
(* metadata records score_count = n and the input values in input order.   *)
(* With non-negative weights (their declared domain) the call returns a    *)
(* score; the equalities hold of every score the call returns.             *)
C5_CombineWeightsAndValue ==
    (Done("combine_confidence_scores") /\ args.scores # <<>> /\ ~ExplicitMismatch) =>
        LET n == Len(args.scores)
            w == IF args.weights = None
                 THEN [i \in 1..n |-> Rat(1, n)]
                 ELSE args.weights[1]
            W == RSum(w)
            used == IF W # Zero THEN [i \in 1..n |-> RDiv(w[i], W)] ELSE w
            values == [i \in 1..n |-> args.scores[i].value]
            weighted == RSum([i \in 1..n |-> RMul(values[i], used[i])])
        IN  /\ DeclaredWeights => Returned
            /\ Returned =>
                 /\ result.score[1].metadata.weights = used
                 /\ W # Zero => RSum(result.score[1].metadata.weights) = One
                 /\ result.score[1].value = weighted
                 /\ args.weights = None =>
                      result.score[1].value = RDiv(RSum(values), RInt(n))
                 /\ result.score[1].metadata.score_count = n
                 /\ result.score[1].metadata.individual_scores = values

C5_Witness ==
    /\ Done("combine_confidence_scores")
    /\ Len(args.scores) = 2
    /\ args.scores[1].value = Rat(8, 10)
    /\ args.scores[2].value = Rat(6, 10)
    /\ args.weights = Some(<<Rat(3, 10), Rat(3, 10)>>)
    /\ Returned
    /\ result.score[1].value = Rat(7, 10)
    /\ result.score[1].metadata.weights = <<Rat(1, 2), Rat(1, 2)>>

(* C6: calculate_agent_confidence on no findings returns base_confidence   *)
(* (default 0.9) with factors [no_delusions_found]; on n >= 1 findings it  *)
(* returns min(1.0, (sum of c_i * m_i) / n), c_i the finding's confidence  *)
(* (0.5 if absent), m_i 1.2 for severity high, 0.8 for low, 1.0 otherwise  *)
(* (absent severity counts as medium), with one factor per finding in      *)
(* input order, and metadata recording n and the pre-clamp average.        *)
C6_AgentConfidence ==
    Done("calculate_agent_confidence") =>
        LET d == args.delusions
            n == Len(d)
            base == IF args.base_confidence = None
                    THEN Rat(9, 10) ELSE args.base_confidence[1]
            c(i) == IF d[i].confidence = None THEN Rat(1, 2) ELSE d[i].confidence[1]
            sev(i) == IF d[i].severity = None THEN "medium" ELSE d[i].severity[1]
            m(i) == IF sev(i) = "high" THEN Rat(12, 10)
                    ELSE IF sev(i) = "low" THEN Rat(8, 10) ELSE One
            f(i) == IF sev(i) = "high" THEN "high_severity_penalty"
                    ELSE IF sev(i) = "low" THEN "low_severity_penalty"
                    ELSE "medium_severity"
            avg == RDiv(RSum([i \in 1..n |-> RMul(c(i), m(i))]), RInt(n))
        IN  /\ Returned
            /\ IF n = 0
               THEN /\ result.score[1].value = base
                    /\ result.score[1].factors = <<"no_delusions_found">>
               ELSE /\ result.score[1].value = RMin(One, avg)
                    /\ result.score[1].factors = [i \in 1..n |-> f(i)]
                    /\ result.score[1].metadata.delusion_count = n
                    /\ result.score[1].metadata.average_delusion_confidence = avg

C6_Witness ==
    /\ Done("calculate_agent_confidence")
    /\ Len(args.delusions) = 2
    /\ args.delusions[1] = [confidence |-> Some(One), severity |-> Some("high")]
    /\ args.delusions[2] = [confidence |-> Some(One), severity |-> Some("high")]
    /\ Returned
    /\ result.score[1].value = One
    /\ result.score[1].metadata.average_delusion_confidence = Rat(12, 10)
    /\ result.score[1].factors = <<"high_severity_penalty", "high_severity_penalty">>

(* C7: calculate_recovery_confidence on no changes returns base_confidence *)
(* (default 0.5) with factors [no_changes_made]; on n >= 1 changes it      *)
(* returns min(0.9, base_confidence + min(0.4, n * 0.1)) with factors      *)
(* [changes_successful, multiple_changes], also for n = 1, and metadata    *)
(* recording n and the increase.                                           *)
C7_RecoveryConfidence ==
    Done("calculate_recovery_confidence") =>
        LET n == Len(args.changes_made)
            base == IF args.base_confidence = None
                    THEN Rat(5, 10) ELSE args.base_confidence[1]
            increase == RMin(Rat(4, 10), Rat(n, 10))
        IN  /\ Returned
            /\ IF n = 0
               THEN /\ result.score[1].value = base
                    /\ result.score[1].factors = <<"no_changes_made">>
               ELSE /\ result.score[1].value = RMin(Rat(9, 10), RAdd(base, increase))
                    /\ result.score[1].factors =
                           <<"changes_successful", "multiple_changes">>
                    /\ result.score[1].metadata.changes_count = n
                    /\ result.score[1].metadata.confidence_increase = increase

C7_Witness ==
    /\ Done("calculate_recovery_confidence")
    /\ Len(args.changes_made) = 1
    /\ args.base_confidence = None
    /\ Returned
    /\ result.score[1].value = Rat(6, 10)
    /\ result.score[1].factors = <<"changes_successful", "multiple_changes">>

(* C8: calculate_validation_confidence on no issues returns                *)
(* base_confidence (default 0.9) with factors [no_issues_found]; on n >= 1 *)
(* issues it returns max(0.1, base_confidence - min(0.8, n * 0.1)) with    *)
(* factors [issues_found, multiple_issues], also for n = 1, and metadata   *)
(* recording n and the decrease.                                           *)
C8_ValidationConfidence ==
    Done("calculate_validation_confidence") =>
        LET n == Len(args.issues)
            base == IF args.base_confidence = None
                    THEN Rat(9, 10) ELSE args.base_confidence[1]
            decrease == RMin(Rat(8, 10), Rat(n, 10))
        IN  /\ Returned
            /\ IF n = 0
               THEN /\ result.score[1].value = base
                    /\ result.score[1].factors = <<"no_issues_found">>
               ELSE /\ result.score[1].value = RMax(Rat(1, 10), RSub(base, decrease))
                    /\ result.score[1].factors = <<"issues_found", "multiple_issues">>
                    /\ result.score[1].metadata.issues_count = n
                    /\ result.score[1].metadata.confidence_decrease = decrease

C8_Witness ==
    /\ Done("calculate_validation_confidence")
    /\ Len(args.issues) = 1
    /\ args.base_confidence = None
    /\ Returned
    /\ result.score[1].value = Rat(8, 10)
    /\ result.score[1].factors = <<"issues_found", "multiple_issues">>

\* The completion ratio and the average step confidence of a workflow call
\* with total_steps > 0, as the claims define them.
WorkflowRatio == Rat(args.steps_completed, args.total_steps)

WorkflowAverage ==
    IF args.step_confidence_scores = <<>>
    THEN Rat(1, 2)
    ELSE RDiv(RSum(args.step_confidence_scores),
              RInt(Len(args.step_confidence_scores)))

WorkflowValue ==
    RAdd(RMul(WorkflowRatio, Rat(6, 10)), RMul(WorkflowAverage, Rat(4, 10)))

WorkflowValueAndMetadata ==
    /\ result.score[1].value = WorkflowValue
    /\ result.score[1].metadata.completion_ratio = WorkflowRatio
    /\ result.score[1].metadata.average_step_confidence = WorkflowAverage
    /\ result.score[1].metadata.steps_completed = args.steps_completed
    /\ result.score[1].metadata.total_steps = args.total_steps

(* C9: calculate_workflow_confidence with total_steps = 0 returns value    *)
(* 0.0 with factors [no_steps_defined] whatever the other arguments; with  *)
(* total_steps > 0 it returns (steps_completed / total_steps) * 0.6 +      *)
(* avg * 0.4, avg the mean of the per-step values or 0.5 when there are    *)
(* none, and metadata records the ratio, avg, steps_completed and          *)
(* total_steps.                                                            *)
C9_WorkflowConfidence ==
    Done("calculate_workflow_confidence") =>
        /\ Returned
        /\ IF args.total_steps = 0
           THEN /\ result.score[1].value = Zero
                /\ result.score[1].factors = <<"no_steps_defined">>
           ELSE WorkflowValueAndMetadata

\* What remains of C9 on the code: it holds of every call that returns.
C9_HoldsOfReturnedScores ==
    (Done("calculate_workflow_confidence") /\ Returned) =>
        IF args.total_steps = 0
        THEN /\ result.score[1].value = Zero
             /\ result.score[1].factors = <<"no_steps_defined">>
        ELSE WorkflowValueAndMetadata

CompletionTier ==
    IF WorkflowRatio = One THEN "workflow_completed"
    ELSE IF RLt(Rat(1, 2), WorkflowRatio) THEN "workflow_partially_completed"
    ELSE "workflow_early_stage"

ConfidenceTier ==
    IF RLt(Rat(8, 10), WorkflowAverage) THEN <<"high_step_confidence">>
    ELSE IF RLt(WorkflowAverage, Rat(3, 10)) THEN <<"low_step_confidence">>
    ELSE <<>>

(* C10: for every calculate_workflow_confidence call with total_steps > 0  *)
(* the returned factors are one completion-tier factor (workflow_completed *)
(* iff ratio = 1.0, else workflow_partially_completed iff ratio > 0.5,     *)
(* else workflow_early_stage) followed by at most one confidence-tier      *)
(* factor (high_step_confidence iff avg > 0.8, low_step_confidence iff     *)
(* avg < 0.3, none in between).                                            *)
C10_WorkflowFactors ==
    (Done("calculate_workflow_confidence") /\ args.total_steps > 0) =>
        /\ Returned
        /\ result.score[1].factors = <<CompletionTier>> \o ConfidenceTier

\* What remains of C10 on the code: it holds of every call that returns.
C10_HoldsOfReturnedScores ==
    (Done("calculate_workflow_confidence") /\ args.total_steps > 0 /\ Returned) =>
        result.score[1].factors = <<CompletionTier>> \o ConfidenceTier

\* The factors of the first k scores, one score after the other.
RECURSIVE FactorsOfFirst(_, _)
FactorsOfFirst(scores, k) ==
    IF k = 0 THEN <<>>
    ELSE FactorsOfFirst(scores, k - 1) \o scores[k].factors

RECURSIVE FactorCountOfFirst(_, _)
FactorCountOfFirst(scores, k) ==
    IF k = 0 THEN 0
    ELSE FactorCountOfFirst(scores, k - 1) + Len(scores[k].factors)

(* C11: for a non-empty score sequence the factors of the score            *)
(* combine_confidence_scores returns are the concatenation of the input    *)
(* scores' factors in input order, duplicates retained, so their number is *)
(* the sum of the input factor counts and they do not depend on the        *)
(* weights; for an empty score sequence the result is value 0.0 with       *)
(* factors [no_scores_provided].  With omitted or non-negative matching    *)
(* weights the call returns a score.                                       *)
C11_CombineFactors ==
    Done("combine_confidence_scores") =>
        IF args.scores = <<>>
        THEN /\ Returned
             /\ result.score[1].value = Zero
             /\ result.score[1].factors = <<"no_scores_provided">>
        ELSE /\ DeclaredWeights => Returned
             /\ Returned =>
                  /\ result.score[1].factors =
                         FactorsOfFirst(args.scores, Len(args.scores))
                  /\ Len(result.score[1].factors) =
                         FactorCountOfFirst(args.scores, Len(args.scores))

C11_Witness ==
    /\ Done("combine_confidence_scores")
    /\ Len(args.scores) = 2
    /\ args.scores[1].factors = <<"factor2", "factor1">>
    /\ args.scores[2].factors = <<"factor1">>
    /\ args.weights = Some(<<Rat(7, 10), Rat(3, 10)>>)
    /\ Returned
    /\ result.score[1].factors = <<"factor2", "factor1", "factor1">>

\* base_confidence of the call, with the default of the operation called.
RecoveryBase == OrDefault(args.base_confidence, Rat(5, 10))

ValidationBase == OrDefault(args.base_confidence, Rat(9, 10))

\* The value the same call returns when only the first m changes (issues)
\* are passed.
RecoveryValueOfFirst(m) ==
    calculate_recovery_confidence(SubSeq(args.changes_made, 1, m),
                                  RecoveryBase).score[1].value

ValidationValueOfFirst(m) ==
    calculate_validation_confidence(SubSeq(args.issues, 1, m),
                                    ValidationBase).score[1].value

\* The returned value does not decrease (increase) from m changes (issues)
\* to m + 1, for every m >= 1 below the number passed.
RecoveryNonDecreasing ==
    \A m \in 1..(Len(args.changes_made) - 1) :
        RLe(RecoveryValueOfFirst(m), RecoveryValueOfFirst(m + 1))

ValidationNonIncreasing ==
    \A m \in 1..(Len(args.issues) - 1) :
        RLe(ValidationValueOfFirst(m + 1), ValidationValueOfFirst(m))

(* C14, as stated: for every base_confidence in [0, 1] and every non-empty *)
(* sequence of changes, calculate_recovery_confidence returns a value      *)
(* strictly greater than base_confidence, and the value is non-decreasing  *)
(* in the number of changes.                                               *)
C14_RecoveryAboveBase ==
    (Done("calculate_recovery_confidence") /\ args.changes_made # <<>>) =>
        /\ Returned
        /\ RLt(RecoveryBase, result.score[1].value)
        /\ RecoveryNonDecreasing

(* C14, amended: for every base_confidence in [0, 0.9) and every non-empty *)
(* sequence of changes, calculate_recovery_confidence returns a value      *)
(* strictly greater than base_confidence; for base_confidence in           *)
(* [0.9, 1] it returns the cap 0.9, which is not above base_confidence;    *)
(* for every base_confidence in [0, 1] the value is non-decreasing in the  *)
(* number of changes n >= 1.                                               *)
C14_RecoveryAboveBaseBelowCap ==
    (Done("calculate_recovery_confidence") /\ args.changes_made # <<>>) =>
        /\ Returned
        /\ result.score[1].value = RecoveryValueOfFirst(Len(args.changes_made))
        /\ IF RLt(RecoveryBase, Rat(9, 10))
           THEN RLt(RecoveryBase, result.score[1].value)
           ELSE result.score[1].value = Rat(9, 10)
        /\ RecoveryNonDecreasing

C14_Witness ==
    /\ Done("calculate_recovery_confidence")
    /\ Len(args.changes_made) = 3
    /\ args.base_confidence = None
    /\ Returned
    /\ result.score[1].value = Rat(8, 10)
    /\ RecoveryValueOfFirst(2) = Rat(7, 10)

(* C15, as stated: for every base_confidence in [0, 1] and every non-empty *)
(* sequence of issues, calculate_validation_confidence returns a value     *)
(* strictly less than base_confidence, and the value is non-increasing in  *)
(* the number of issues.                                                   *)
C15_ValidationBelowBase ==
    (Done("calculate_validation_confidence") /\ args.issues # <<>>) =>
        /\ Returned
        /\ RLt(result.score[1].value, ValidationBase)
        /\ ValidationNonIncreasing

(* C15, amended: for every base_confidence in (0.1, 1] and every non-empty *)
(* sequence of issues, calculate_validation_confidence returns a value     *)
(* strictly less than base_confidence; for base_confidence in [0, 0.1] it  *)
(* returns the floor 0.1, which is not below base_confidence; for every    *)
(* base_confidence in [0, 1] the value is non-increasing in the number of  *)
(* issues n >= 1.                                                          *)
C15_ValidationBelowBaseAboveFloor ==
    (Done("calculate_validation_confidence") /\ args.issues # <<>>) =>
        /\ Returned
        /\ result.score[1].value = ValidationValueOfFirst(Len(args.issues))
        /\ IF RLt(Rat(1, 10), ValidationBase)
           THEN RLt(result.score[1].value, ValidationBase)
           ELSE result.score[1].value = Rat(1, 10)
        /\ ValidationNonIncreasing

C15_Witness ==
    /\ Done("calculate_validation_confidence")
    /\ Len(args.issues) = 2
    /\ args.base_confidence = None
    /\ Returned
    /\ result.score[1].value = Rat(7, 10)
    /\ ValidationValueOfFirst(1) = Rat(8, 10)

(* C12: a ConfidenceScore is immutable after construction: whatever is     *)
(* done with an existing instance (passing it to combine_confidence_scores,*)
(* reading its fields, a caller assigning to value, factors or metadata),  *)
(* its value, factors and metadata equal what they were at construction,   *)
(* and its value stays in [0.0, 1.0].                                      *)
C12_InstanceImmutable ==
    pc = "live" =>
        /\ instance = constructed
        /\ InUnitInterval(instance[1].value)

\* What remains of C12 on the code: reading an instance and passing it to
\* combine_confidence_scores leave it as it is.
C12_ReadAndCombineLeaveInstance ==
    [][(ReadValue \/ PassToCombine) => instance' = instance]_vars

\* The claim of C13 for a caller-supplied max_retries of N.
RetryContract(N) ==
    \* at most N + 1 invocations
    /\ Len(invocations) <= N + 1
    \* a retry only while fewer than N retries have been made
    /\ retry_pc = "sleep" => attempt < N
    \* the first successful attempt ends the call with its result
    /\ \A i \in 1..Len(invocations) :
          invocations[i] = "returned" =>
              /\ i = Len(invocations)
              /\ retry_pc = "returned"
              /\ outcome = Some([kind |-> "returned", attempt |-> i - 1])
    \* a failure is re-raised only after N + 1 failed attempts, and it is
    \* the failure of the last one
    /\ retry_pc = "raised" =>
          /\ Len(invocations) = N + 1
          /\ outcome = Some([kind |-> invocations[N + 1], attempt |-> N])
    \* the call ends when every attempt has failed
    /\ (Len(invocations) = N + 1 /\ invocations[N + 1] # "returned") =>
          retry_pc = "raised"

(* C13: for every caller-supplied max_retries N >= 0, execute_with_retry   *)
(* invokes the operation at most N + 1 times: it returns the result of the *)
(* first attempt that succeeds and attempts nothing after it; a failed     *)
(* attempt is retried only while fewer than N retries have been made; when *)
(* all N + 1 attempts fail it re-raises the last failure and ends.         *)
C13_AtMostNPlusOneAttempts ==
    (retry_pc # "idle" /\ max_retries_arg # None) =>
        RetryContract(max_retries_arg[1])

\* What remains of C13 on the code: it holds for every supplied N >= 1, and
\* with max_retries omitted for N = default_retries.
C13_HoldsForPositiveN ==
    (retry_pc \notin {"idle", "entry"}) =>
        IF max_retries_arg # None /\ max_retries_arg[1] >= 1
        THEN RetryContract(max_retries_arg[1])
        ELSE RetryContract(default_retries)

============================================================================
